---------------------------- MODULE Spec2Model ----------------------------
(***************************************************************************)
(* A model of the CanvasBoard component of stylus-scribble-studio          *)
(* (src/unnamed/part_000, the current CanvasBoard.tsx) together with the   *)
(* callers of its handlers: LayerPanel and ZoomPanControls                 *)
(* (src/src/components/canvas/ZoomPanControls.tsx) and CanvasToolbar.      *)
(* Rendering (the overlay preview, the minimap, resizing, PNG export) is    *)
(* left out: it writes none of the state below.                            *)
(*                                                                         *)
(* Every browser event runs its handler to completion, and React commits   *)
(* the state updates of a discrete event (click, key, pointer) and re-runs *)
(* the effects that depend on them before the next event is dispatched, so *)
(* a handler always closes over the current state: one action per handler. *)
(*                                                                         *)
(* Representation.                                                         *)
(*   - a layer id "layer-<n>" is the integer n; a layer name "Layer <n>"   *)
(*     is the integer n (both formats are injective in n);                 *)
(*   - zoom is kept in tenths (zoom = 10 is the scale 1.0), so the steps   *)
(*     0.1 and 0.2 and the clamps 0.1 and 5 are the integers 1, 2, 1, 50;  *)
(*   - a point is a pair <<x, y>> of integer pixel coordinates; pressure   *)
(*     and timestamp of a sample are read only by the external outline     *)
(*     routine (getStroke), whose result is a nondeterministic input;      *)
(*   - the drawing library's canvas is its object list (objects), the set  *)
(*     of indices of the objects of its active selection (activeObject)    *)
(*     and the three interactivity flags the component writes.  Objects    *)
(*     are only ever appended, removed from the end or removed all at      *)
(*     once, so an index identifies an object for as long as it exists.    *)
(***************************************************************************)
EXTENDS Integers, Sequences, FiniteSets

VARIABLES
    layers,          \* useState<Layer[]>      (part_000:45)
    activeLayerId,   \* useState<string>       (part_000:48)
    now,             \* the clock read by Date.now()
    zoom,            \* useState<number>, in tenths (part_000:38)
    panX,            \* useState<number>       (part_000:39)
    panY,            \* useState<number>       (part_000:40)
    wheelTimeout,    \* the pending wheel step of handleWheel's setTimeout
    tool,            \* useState<Tool>         (part_000:32)
    color,           \* useState<string>       (part_000:33)
    isPanning,       \* useState<boolean>      (part_000:41)
    drawingRef,      \* useRef(false)          (part_000:51)
    pointsRef,       \* useRef<Pt[]>([])       (part_000:50)
    pointer,         \* where the pointer went down: "up", "overlay", "elsewhere"
    objects,         \* fabric.getObjects()
    activeObject,    \* fabric's active selection, as a set of indices of objects
    selection,       \* fabric.selection
    skipTargetFind,  \* fabric.skipTargetFind
    defaultCursor,   \* fabric.defaultCursor
    pipArgs,         \* arguments of a direct call of isPointInPolygon
    pipRet           \* <<its result>>, and <<>> before the call

layerVars   == <<layers, activeLayerId>>
viewVars    == <<zoom, panX, panY, wheelTimeout>>
toolVars    == <<tool, color>>
gestureVars == <<isPanning, drawingRef, pointsRef, pointer>>
fabricVars  == <<objects, activeObject, selection, skipTargetFind, defaultCursor>>
pipVars     == <<pipArgs, pipRet>>
vars == <<layers, activeLayerId, now, zoom, panX, panY, wheelTimeout, tool,
          color, isPanning, drawingRef, pointsRef, pointer, objects,
          activeObject, selection, skipTargetFind, defaultCursor, pipArgs,
          pipRet>>

---------------------------------------------------------------------------
(* Bounds of the model.                                                    *)

\* the layer list is capped at MaxLayers entries
MaxLayers == 2
\* the clock advances at most MaxTicks times
MaxTicks == 1
\* the canvas holds at most MaxObjects objects
MaxObjects == 2
\* a gesture records at most MaxPts samples
MaxPts == 3
\* the pan offset stays within -MaxPan .. MaxPan on both axes
MaxPan == 200
\* a polygon handed directly to isPointInPolygon has at most MaxPolyLen vertices
MaxPolyLen == 4

\* The first clock value.  Date.now() is a count of milliseconds since 1970,
\* far above the 1 of the initial "layer-1".
ClockStart == 2

\* the positions the pointer is sampled at
Positions == {<<100, 100>>, <<300, 100>>, <<100, 300>>}
\* the ink colours the colour input is set to ("#3b82f6" is the initial one)
Colors == {"#3b82f6", "#000000"}
\* the tools the toolbar's buttons set
Tools == {"draw", "select", "lasso"}
\* coordinates of the vertices, and of the point, of a direct isPointInPolygon call
PipVertexCoords == {0, 2, 4}
PipPointCoords == {1, 2, 3}
(* What the outline routine (getStroke) returns for a stroke: no point at  *)
(* all, or the vertices of an outline.  Two outlines stand for all of      *)
(* them: a box around (150, 150) and a box around (250, 250).              *)
Outlines == {<<>>,
             <<<<140, 140>>, <<160, 140>>, <<160, 160>>, <<140, 160>>>>,
             <<<<240, 240>>, <<260, 240>>, <<260, 260>>, <<240, 260>>>>}

Min(a, b) == IF a < b THEN a ELSE b
Max(a, b) == IF a > b THEN a ELSE b

---------------------------------------------------------------------------
(* Layers: part_000:460-500, called from LayerPanel.                       *)

\* useState initial value, part_000:45-47
InitialLayer == [id |-> 1, name |-> 1, visible |-> TRUE, locked |-> FALSE,
                 objects |-> <<>>]

\* Array.prototype.filter(l => l.id !== id)
FilterOut(ls, id) == SelectSeq(ls, LAMBDA l : l.id # id)

\* layers.find(l => l.id !== id)?.id || layers[0].id
FindOtherId(ls, id) ==
    IF FilterOut(ls, id) # <<>> THEN FilterOut(ls, id)[1].id ELSE ls[1].id

\* the clock moves on between two events
Tick ==
    /\ now < ClockStart + MaxTicks
    /\ now' = now + 1
    /\ UNCHANGED <<layerVars, viewVars, toolVars, gestureVars, fabricVars, pipVars>>

handleLayerSelect(id) ==
    /\ activeLayerId' = id
    /\ UNCHANGED <<layers, now, viewVars, toolVars, gestureVars, fabricVars, pipVars>>

\* Fault: the new layer record is given the canvas objects.
handleLayerAddWithObjects ==
    /\ Len(layers) < MaxLayers
    /\ LET newLayer == [id |-> now, name |-> Len(layers) + 1, visible |-> TRUE,
                        locked |-> FALSE, objects |-> objects]
       IN  /\ layers' = Append(layers, newLayer)
           /\ activeLayerId' = newLayer.id
    /\ UNCHANGED <<now, viewVars, toolVars, gestureVars, fabricVars, pipVars>>

handleLayerAdd ==
    /\ Len(layers) < MaxLayers
    /\ LET newLayer == [id |-> now, name |-> Len(layers) + 1, visible |-> TRUE,
                        locked |-> FALSE, objects |-> <<>>]
       IN  /\ layers' = Append(layers, newLayer)
           /\ activeLayerId' = newLayer.id
    /\ UNCHANGED <<now, viewVars, toolVars, gestureVars, fabricVars, pipVars>>

handleLayerDelete(id) ==
    /\ IF Len(layers) <= 1
       THEN UNCHANGED <<layers, activeLayerId>>
       ELSE /\ layers' = FilterOut(layers, id)
            /\ activeLayerId' = IF activeLayerId = id
                                THEN FindOtherId(layers, id)
                                ELSE activeLayerId
    /\ UNCHANGED <<now, viewVars, toolVars, gestureVars, fabricVars, pipVars>>

handleLayerToggleVisible(id) ==
    /\ layers' = [i \in 1 .. Len(layers) |->
                    IF layers[i].id = id
                    THEN [layers[i] EXCEPT !.visible = ~layers[i].visible]
                    ELSE layers[i]]
    /\ UNCHANGED <<activeLayerId, now, viewVars, toolVars, gestureVars, fabricVars, pipVars>>

handleLayerToggleLock(id) ==
    /\ layers' = [i \in 1 .. Len(layers) |->
                    IF layers[i].id = id
                    THEN [layers[i] EXCEPT !.locked = ~layers[i].locked]
                    ELSE layers[i]]
    /\ UNCHANGED <<activeLayerId, now, viewVars, toolVars, gestureVars, fabricVars, pipVars>>

\* splice(fromIndex, 1) then splice(toIndex, 0, moved); indices are 1-based here
Splice(ls, from, to) ==
    LET moved == ls[from]
        rest  == [i \in 1 .. Len(ls) - 1 |-> IF i < from THEN ls[i] ELSE ls[i + 1]]
    IN  [i \in 1 .. Len(ls) |->
            IF i < to THEN rest[i] ELSE IF i = to THEN moved ELSE rest[i - 1]]

handleLayerReorder(fromIndex, toIndex) ==
    /\ layers' = Splice(layers, fromIndex, toIndex)
    /\ UNCHANGED <<activeLayerId, now, viewVars, toolVars, gestureVars, fabricVars, pipVars>>

(* LayerPanel (ZoomPanControls.tsx:67-195): one row per layer, whose       *)
(* buttons hand the row's own id or index to the handlers.                 *)
LayerPanelSelect == \E i \in 1 .. Len(layers) : handleLayerSelect(layers[i].id)

\* the delete button is disabled while a single layer is left (line 184)
LayerPanelDelete ==
    \E i \in 1 .. Len(layers) :
        Len(layers) > 1 /\ handleLayerDelete(layers[i].id)

LayerPanelToggleVisible ==
    \E i \in 1 .. Len(layers) : handleLayerToggleVisible(layers[i].id)

LayerPanelToggleLock ==
    \E i \in 1 .. Len(layers) : handleLayerToggleLock(layers[i].id)

\* handleMoveUp, lines 79-83
handleMoveUp(index) == index > 1 /\ handleLayerReorder(index, index - 1)

\* handleMoveDown, lines 85-89
handleMoveDown(index) == index < Len(layers) /\ handleLayerReorder(index, index + 1)

LayerPanelMoveUp == \E i \in 1 .. Len(layers) : handleMoveUp(i)
LayerPanelMoveDown == \E i \in 1 .. Len(layers) : handleMoveDown(i)

LayerOp ==
    \/ handleLayerAdd
    \/ LayerPanelSelect
    \/ LayerPanelDelete
    \/ LayerPanelToggleVisible
    \/ LayerPanelToggleLock
    \/ LayerPanelMoveUp
    \/ LayerPanelMoveDown

---------------------------------------------------------------------------
(* Zoom and pan controls: part_000:202-226 and 439-453, called from        *)
(* ZoomPanControls (ZoomPanControls.tsx:13-40) and the wheel listener.     *)

\* Math.min(5, .) and Math.max(0.1, .), in tenths
ZoomMax == 50
ZoomMin == 1
\* the button step 0.2 and the wheel's zoomStep 0.1, in tenths
ZoomButtonStep == 2
ZoomWheelStep == 1

(* The wheel effect depends on [zoom]: a commit that changes zoom runs its *)
(* cleanup, which clears the pending timeout (line 224).                   *)
WheelAfterZoom(newZoom) == IF newZoom # zoom THEN "none" ELSE wheelTimeout

\* setZoom(z) together with the effect cleanup it triggers
SetZoom(newZoom) ==
    /\ zoom' = newZoom
    /\ wheelTimeout' = WheelAfterZoom(newZoom)

\* Fault: Math.min(5, .) is left out.
handleZoomInNoClamp ==
    /\ SetZoom(zoom + ZoomButtonStep)
    /\ UNCHANGED <<panX, panY, layerVars, now, toolVars, gestureVars, fabricVars, pipVars>>

handleZoomIn ==
    /\ SetZoom(Min(ZoomMax, zoom + ZoomButtonStep))
    /\ UNCHANGED <<panX, panY, layerVars, now, toolVars, gestureVars, fabricVars, pipVars>>

handleZoomOut ==
    /\ SetZoom(Max(ZoomMin, zoom - ZoomButtonStep))
    /\ UNCHANGED <<panX, panY, layerVars, now, toolVars, gestureVars, fabricVars, pipVars>>

handleResetView ==
    /\ SetZoom(10)
    /\ panX' = 0
    /\ panY' = 0
    /\ UNCHANGED <<layerVars, now, toolVars, gestureVars, fabricVars, pipVars>>

handleFitToCanvas ==
    /\ SetZoom(10)
    /\ panX' = 0
    /\ panY' = 0
    /\ UNCHANGED <<layerVars, now, toolVars, gestureVars, fabricVars, pipVars>>

\* a wheel event: clearTimeout, then setTimeout of the step for its direction
handleWheel(deltaYPositive) ==
    /\ wheelTimeout' = IF deltaYPositive THEN "out" ELSE "in"
    /\ UNCHANGED <<zoom, panX, panY, layerVars, now, toolVars, gestureVars, fabricVars, pipVars>>

\* newZoom of the timeout's callback, lines 212-214
WheelZoom(z, dir) ==
    Max(ZoomMin, Min(ZoomMax, z + (IF dir = "out" THEN -ZoomWheelStep ELSE ZoomWheelStep)))

\* the timeout fires: lines 211-216
WheelTimeoutFires ==
    /\ wheelTimeout # "none"
    /\ zoom' = WheelZoom(zoom, wheelTimeout)
    /\ wheelTimeout' = "none"
    /\ UNCHANGED <<panX, panY, layerVars, now, toolVars, gestureVars, fabricVars, pipVars>>

ViewOp ==
    \/ handleZoomIn
    \/ handleZoomOut
    \/ handleResetView
    \/ handleFitToCanvas
    \/ \E d \in BOOLEAN : handleWheel(d)
    \/ WheelTimeoutFires

---------------------------------------------------------------------------
(* Toolbar: CanvasToolbar.tsx:41-80 calls setTool, setColor, addRect,      *)
(* addCircle, undo and clearAll of part_000.                               *)

IsInkTool(t) == t = "draw" \/ t = "lasso"

(* setTool(t) and the effect on [tool], part_000:134-147, which runs when  *)
(* the tool changed.                                                       *)
setTool(t) ==
    /\ tool' = t
    /\ IF t # tool
       THEN /\ selection' = ~IsInkTool(t)
            /\ skipTargetFind' = IsInkTool(t)
            /\ defaultCursor' = IF IsInkTool(t) THEN "crosshair" ELSE "default"
       ELSE UNCHANGED <<selection, skipTargetFind, defaultCursor>>
    /\ UNCHANGED <<color, objects, activeObject, layerVars, now, viewVars, gestureVars, pipVars>>

setColor(c) ==
    /\ color' = c
    /\ UNCHANGED <<tool, layerVars, now, viewVars, gestureVars, fabricVars, pipVars>>

(* The centre of an object is what obj.getCenterPoint() returns.  A Rect   *)
(* at left 120, top 120 of 160 x 100 has its centre at (200, 170), a       *)
(* Circle at left 160, top 160 of radius 60 at (220, 220).                 *)
RectCenter == <<200, 170>>
CircleCenter == <<220, 220>>

NewRect(fill) == [kind |-> "rect", fill |-> fill, center |-> RectCenter]
NewCircle(fill) == [kind |-> "circle", fill |-> fill, center |-> CircleCenter]

addRect ==
    /\ Len(objects) < MaxObjects
    /\ objects' = Append(objects, NewRect(color))
    /\ activeObject' = {Len(objects) + 1}
    /\ UNCHANGED <<selection, skipTargetFind, defaultCursor, layerVars, now, viewVars, toolVars, gestureVars, pipVars>>

addCircle ==
    /\ Len(objects) < MaxObjects
    /\ objects' = Append(objects, NewCircle(color))
    /\ activeObject' = {Len(objects) + 1}
    /\ UNCHANGED <<selection, skipTargetFind, defaultCursor, layerVars, now, viewVars, toolVars, gestureVars, pipVars>>

\* objects without objects[objects.length - 1]
RemoveLast(objs) == SubSeq(objs, 1, Len(objs) - 1)

\* Fault: the first object is removed instead of the last.
undoFirst ==
    /\ IF Len(objects) = 0
       THEN UNCHANGED <<objects, activeObject>>
       ELSE /\ objects' = Tail(objects)
            /\ activeObject' = {}
    /\ UNCHANGED <<selection, skipTargetFind, defaultCursor, layerVars, now, viewVars, toolVars, gestureVars, pipVars>>

undo ==
    /\ IF Len(objects) = 0
       THEN UNCHANGED <<objects, activeObject>>
       ELSE /\ objects' = RemoveLast(objects)
            /\ activeObject' = {}
    /\ UNCHANGED <<selection, skipTargetFind, defaultCursor, layerVars, now, viewVars, toolVars, gestureVars, pipVars>>

\* canvas.clear() removes every object and discards the active selection
clearAll ==
    /\ objects' = <<>>
    /\ activeObject' = {}
    /\ UNCHANGED <<selection, skipTargetFind, defaultCursor, layerVars, now, viewVars, toolVars, gestureVars, pipVars>>

ToolbarOp ==
    \/ \E t \in Tools : setTool(t)
    \/ addRect
    \/ addCircle
    \/ undo
    \/ clearAll

---------------------------------------------------------------------------
(* Keyboard: part_000:168-200.  Only the Space key is handled.             *)

\* Fault: the test !drawingRef.current is left out.
handleKeyDownDuringGesture ==
    /\ IF ~isPanning
       THEN /\ isPanning' = TRUE
            /\ defaultCursor' = "grab"
            /\ skipTargetFind' = TRUE
       ELSE UNCHANGED <<isPanning, defaultCursor, skipTargetFind>>
    /\ UNCHANGED <<drawingRef, pointsRef, pointer, objects, activeObject, selection,
                   layerVars, now, viewVars, toolVars, pipVars>>

\* lines 169-179, for a Space key
handleKeyDown ==
    /\ IF ~isPanning /\ ~drawingRef
       THEN /\ isPanning' = TRUE
            /\ defaultCursor' = "grab"
            /\ skipTargetFind' = TRUE
       ELSE UNCHANGED <<isPanning, defaultCursor, skipTargetFind>>
    /\ UNCHANGED <<drawingRef, pointsRef, pointer, objects, activeObject, selection,
                   layerVars, now, viewVars, toolVars, pipVars>>

handleKeyUp ==
    /\ IF isPanning
       THEN /\ isPanning' = FALSE
            /\ defaultCursor' = IF tool = "draw" THEN "crosshair" ELSE "default"
            /\ skipTargetFind' = (tool = "draw" \/ tool = "lasso")
       ELSE UNCHANGED <<isPanning, defaultCursor, skipTargetFind>>
    /\ UNCHANGED <<drawingRef, pointsRef, pointer, objects, activeObject, selection,
                   layerVars, now, viewVars, toolVars, pipVars>>

---------------------------------------------------------------------------
(* Lasso geometry: part_000:403-412.                                       *)

(* The test of lines 406-407 for the edge from polygon[j] to polygon[i]:   *)
(*   (yi > py) != (yj > py)  &&  px < (xj - xi) * (py - yi) / (yj - yi) + xi *)
(* The first conjunct makes yj - yi nonzero.  The comparison is taken over *)
(* the rationals by multiplying it with yj - yi; on integer coordinates    *)
(* the floating-point quotient differs from the exact one by far less than *)
(* the distance of px to it unless the two are equal, and then the         *)
(* quotient is an integer and exact.                                       *)
EdgeCrossed(point, pi, pj) ==
    LET px == point[1]
        py == point[2]
        dy == pj[2] - pi[2]
        lhs == (px - pi[1]) * dy
        rhs == (pj[1] - pi[1]) * (py - pi[2])
    IN  /\ (pi[2] > py) # (pj[2] > py)
        /\ IF dy > 0 THEN lhs < rhs ELSE lhs > rhs

\* the loop of lines 405-410 from index i on (1-based), j the previous index
RECURSIVE PipLoop(_, _, _, _, _)
PipLoop(point, polygon, i, j, inside) ==
    IF i > Len(polygon)
    THEN inside
    ELSE PipLoop(point, polygon, i + 1, i,
                 IF EdgeCrossed(point, polygon[i], polygon[j]) THEN ~inside ELSE inside)

\* Fault: the edge from the last vertex back to the first is left out.
isPointInPolygonNoClosingEdge(point, polygon) ==
    PipLoop(point, polygon, 2, 1, FALSE)

isPointInPolygon(point, polygon) ==
    PipLoop(point, polygon, 1, Len(polygon), FALSE)

---------------------------------------------------------------------------
(* Pointer: part_000:277-429.  pointerdown and pointermove are listened to *)
(* on the overlay canvas, pointerup on the window (lines 427-429).  One    *)
(* pointer is modelled: it goes down on the overlay or elsewhere on the    *)
(* page, and comes up again.                                               *)

\* centre of the bounding box of the points pts
BBoxCenter(pts) ==
    LET xs == {pts[i][1] : i \in 1 .. Len(pts)}
        ys == {pts[i][2] : i \in 1 .. Len(pts)}
        lo(S) == CHOOSE m \in S : \A n \in S : m <= n
        hi(S) == CHOOSE m \in S : \A n \in S : m >= n
    IN  <<(lo(xs) + hi(xs)) \div 2, (lo(ys) + hi(ys)) \div 2>>

(* new FabricPath(getSvgPathFromStroke(stroke), {fill: color, ...}): the   *)
(* path runs through the vertices of the outline, and its centre is the    *)
(* centre of their bounding box.                                           *)
NewPath(fill, stroke) == [kind |-> "path", fill |-> fill, center |-> BBoxCenter(stroke)]

onPointerDown(pos) ==
    /\ pointer = "up"
    /\ pointer' = "overlay"
    /\ IF isPanning
       THEN /\ drawingRef' = TRUE
            /\ pointsRef' = <<pos>>
       ELSE IF tool = "draw"
       THEN /\ drawingRef' = TRUE
            /\ pointsRef' = Append(<<>>, pos)
       ELSE IF tool = "lasso"
       THEN /\ drawingRef' = TRUE
            /\ pointsRef' = Append(<<>>, pos)
       ELSE UNCHANGED <<drawingRef, pointsRef>>
    /\ UNCHANGED <<isPanning, panX, panY, zoom, wheelTimeout, layerVars, now,
                   toolVars, fabricVars, pipVars>>

\* the pointer goes down outside the overlay: no listener of the component runs
PointerDownElsewhere ==
    /\ pointer = "up"
    /\ pointer' = "elsewhere"
    /\ UNCHANGED <<isPanning, drawingRef, pointsRef, layerVars, now, viewVars,
                   toolVars, fabricVars, pipVars>>

\* Fault: while panning, the last position is not replaced by the current one.
onPointerMoveStaleAnchor(pos) ==
    /\ IF ~drawingRef
       THEN UNCHANGED <<pointsRef, panX, panY>>
       ELSE IF isPanning
       THEN /\ IF pointsRef # <<>>
               THEN /\ panX' = panX + (pos[1] - pointsRef[Len(pointsRef)][1])
                    /\ panY' = panY + (pos[2] - pointsRef[Len(pointsRef)][2])
                    /\ panX' \in -MaxPan .. MaxPan
                    /\ panY' \in -MaxPan .. MaxPan
               ELSE UNCHANGED <<panX, panY>>
            /\ UNCHANGED pointsRef
       ELSE IF tool = "draw" \/ tool = "lasso"
       THEN /\ Len(pointsRef) < MaxPts
            /\ pointsRef' = Append(pointsRef, pos)
            /\ UNCHANGED <<panX, panY>>
       ELSE UNCHANGED <<pointsRef, panX, panY>>
    /\ UNCHANGED <<isPanning, drawingRef, pointer, zoom, wheelTimeout, layerVars,
                   now, toolVars, fabricVars, pipVars>>

onPointerMove(pos) ==
    /\ IF ~drawingRef
       THEN UNCHANGED <<pointsRef, panX, panY>>
       ELSE IF isPanning
       THEN /\ IF pointsRef # <<>>
               THEN /\ panX' = panX + (pos[1] - pointsRef[Len(pointsRef)][1])
                    /\ panY' = panY + (pos[2] - pointsRef[Len(pointsRef)][2])
                    /\ panX' \in -MaxPan .. MaxPan
                    /\ panY' \in -MaxPan .. MaxPan
               ELSE UNCHANGED <<panX, panY>>
            /\ pointsRef' = <<pos>>
       ELSE IF tool = "draw" \/ tool = "lasso"
       THEN /\ Len(pointsRef) < MaxPts
            /\ pointsRef' = Append(pointsRef, pos)
            /\ UNCHANGED <<panX, panY>>
       ELSE UNCHANGED <<pointsRef, panX, panY>>
    /\ UNCHANGED <<isPanning, drawingRef, pointer, zoom, wheelTimeout, layerVars,
                   now, toolVars, fabricVars, pipVars>>

\* Fault: the test pts.length < 2 is left out.
finalizeStrokeNoMinimum(stroke) ==
    /\ drawingRef' = FALSE
    /\ IF Len(stroke) = 0
       THEN UNCHANGED objects
       ELSE /\ Len(objects) < MaxObjects
            /\ objects' = Append(objects, NewPath(color, stroke))
    /\ UNCHANGED activeObject

\* lines 340-370; stroke is what getStroke returns for the samples
finalizeStroke(stroke) ==
    /\ drawingRef' = FALSE
    /\ IF Len(pointsRef) < 2
       THEN UNCHANGED objects
       ELSE IF Len(stroke) = 0
       THEN UNCHANGED objects
       ELSE /\ Len(objects) < MaxObjects
            /\ objects' = Append(objects, NewPath(color, stroke))
    /\ UNCHANGED activeObject

\* the objects whose centre the lasso encloses, lines 379-387
LassoSelected(objs, pts) ==
    {i \in 1 .. Len(objs) : isPointInPolygon(objs[i].center, pts)}

\* Fault: the active selection is discarded before the matches are counted.
finalizeLassoDiscardFirst ==
    /\ drawingRef' = FALSE
    /\ IF Len(pointsRef) < 3
       THEN UNCHANGED activeObject
       ELSE activeObject' = LassoSelected(objects, pointsRef)
    /\ UNCHANGED objects

\* lines 372-401
finalizeLasso ==
    /\ drawingRef' = FALSE
    /\ IF Len(pointsRef) < 3
       THEN UNCHANGED activeObject
       ELSE IF LassoSelected(objects, pointsRef) # {}
       THEN activeObject' = LassoSelected(objects, pointsRef)
       ELSE UNCHANGED activeObject
    /\ UNCHANGED objects

\* stroke is what getStroke returns if finalizeStroke comes to call it
onPointerUp(stroke) ==
    /\ pointer # "up"
    /\ pointer' = "up"
    /\ IF isPanning
       THEN /\ drawingRef' = FALSE
            /\ UNCHANGED <<objects, activeObject>>
       ELSE IF tool = "draw"
       THEN finalizeStroke(stroke)
       ELSE IF tool = "lasso"
       THEN finalizeLasso
       ELSE UNCHANGED <<drawingRef, objects, activeObject>>
    /\ UNCHANGED <<isPanning, pointsRef, selection, skipTargetFind, defaultCursor,
                   layerVars, now, viewVars, toolVars, pipVars>>

KeyboardOp ==
    \/ handleKeyDown
    \/ handleKeyUp

PointerOp ==
    \/ \E pos \in Positions : onPointerDown(pos)
    \/ \E pos \in Positions : onPointerMove(pos)
    \/ \E stroke \in Outlines : onPointerUp(stroke)

---------------------------------------------------------------------------
(* A direct call of isPointInPolygon.                                      *)

PipPoints == PipPointCoords \X PipPointCoords
PipVertices == PipVertexCoords \X PipVertexCoords
PipPolygons == UNION {[1 .. n -> PipVertices] : n \in 3 .. MaxPolyLen}

CallIsPointInPolygon ==
    /\ pipRet = <<>>
    /\ pipRet' = <<isPointInPolygon(pipArgs.point, pipArgs.polygon)>>
    /\ UNCHANGED <<pipArgs, layerVars, now, viewVars, toolVars, gestureVars, fabricVars>>

---------------------------------------------------------------------------
\* the state after the component has mounted
Init ==
    /\ layers = <<InitialLayer>>
    /\ activeLayerId = 1
    /\ now = ClockStart
    /\ zoom = 10
    /\ panX = 0
    /\ panY = 0
    /\ wheelTimeout = "none"
    /\ tool = "draw"
    /\ color = "#3b82f6"
    /\ isPanning = FALSE
    /\ drawingRef = FALSE
    /\ pointsRef = <<>>
    /\ pointer = "up"
    /\ objects = <<>>
    /\ activeObject = {}
    /\ selection = FALSE
    /\ skipTargetFind = TRUE
    /\ defaultCursor = "crosshair"
    /\ pipArgs = [point |-> <<0, 0>>, polygon |-> <<>>]
    /\ pipRet = <<>>

\* the layer panel alone, with the clock
NextLayers == LayerOp \/ Tick
SpecLayers == Init /\ [][NextLayers]_vars

\* the zoom controls and the colour input
NextView == ViewOp \/ \E c \in Colors : setColor(c)
SpecView == Init /\ [][NextView]_vars

\* pointer and toolbar: drawing, lasso selection, shapes, undo (Space is not pressed)
NextCanvas == PointerOp \/ PointerDownElsewhere \/ ToolbarOp
SpecCanvas == Init /\ [][NextCanvas]_vars

\* keyboard, pointer and the tool buttons: panning and drawing
NextPan == KeyboardOp \/ PointerOp \/ \E t \in Tools : setTool(t)
SpecPan == Init /\ [][NextPan]_vars

\* isPointInPolygon called on every point and polygon of the bounds
InitPip ==
    /\ Init!1 /\ Init!2 /\ Init!3 /\ Init!4 /\ Init!5 /\ Init!6 /\ Init!7
    /\ Init!8 /\ Init!9 /\ Init!10 /\ Init!11 /\ Init!12 /\ Init!13
    /\ Init!14 /\ Init!15 /\ Init!16 /\ Init!17 /\ Init!18
    /\ pipArgs \in [point : PipPoints, polygon : PipPolygons]
    /\ pipRet = <<>>
NextPip == CallIsPointInPolygon
SpecPip == InitPip /\ [][NextPip]_vars

(* The layer panel started in a state the rest of the component has been  *)
(* left in: the state after mounting; the state after a rectangle was      *)
(* added, the colour and the tool changed, the view zoomed in and panned   *)
(* by a Space drag; and the state in the middle of a lasso gesture over a  *)
(* stroke and a circle, zoomed out to the minimum with a wheel step        *)
(* pending.                                                                *)
FrameStates == {
    [zoom |-> 10, panX |-> 0, panY |-> 0, wheelTimeout |-> "none",
     tool |-> "draw", color |-> "#3b82f6", isPanning |-> FALSE,
     drawingRef |-> FALSE, pointsRef |-> <<>>, pointer |-> "up",
     objects |-> <<>>, activeObject |-> {}, selection |-> FALSE,
     skipTargetFind |-> TRUE, defaultCursor |-> "crosshair"],
    [zoom |-> 12, panX |-> 200, panY |-> 0, wheelTimeout |-> "none",
     tool |-> "select", color |-> "#000000", isPanning |-> FALSE,
     drawingRef |-> FALSE, pointsRef |-> <<<<300, 100>>>>, pointer |-> "up",
     objects |-> <<NewRect("#3b82f6")>>, activeObject |-> {1}, selection |-> TRUE,
     skipTargetFind |-> FALSE, defaultCursor |-> "default"],
    [zoom |-> 1, panX |-> 0, panY |-> 0, wheelTimeout |-> "out",
     tool |-> "lasso", color |-> "#3b82f6", isPanning |-> FALSE,
     drawingRef |-> TRUE, pointsRef |-> <<<<100, 100>>, <<300, 100>>>>,
     pointer |-> "overlay",
     objects |-> <<[kind |-> "path", fill |-> "#3b82f6", center |-> <<150, 150>>],
                   NewCircle("#3b82f6")>>,
     activeObject |-> {2}, selection |-> FALSE,
     skipTargetFind |-> TRUE, defaultCursor |-> "crosshair"]}

FrameState ==
    [zoom |-> zoom, panX |-> panX, panY |-> panY, wheelTimeout |-> wheelTimeout,
     tool |-> tool, color |-> color, isPanning |-> isPanning,
     drawingRef |-> drawingRef, pointsRef |-> pointsRef, pointer |-> pointer,
     objects |-> objects, activeObject |-> activeObject, selection |-> selection,
     skipTargetFind |-> skipTargetFind, defaultCursor |-> defaultCursor]

InitFrame ==
    /\ Init!1 /\ Init!2 /\ Init!3 /\ Init!19 /\ Init!20
    /\ \E f \in FrameStates :
        /\ zoom = f.zoom /\ panX = f.panX /\ panY = f.panY
        /\ wheelTimeout = f.wheelTimeout /\ tool = f.tool /\ color = f.color
        /\ isPanning = f.isPanning /\ drawingRef = f.drawingRef
        /\ pointsRef = f.pointsRef /\ pointer = f.pointer
        /\ objects = f.objects /\ activeObject = f.activeObject
        /\ selection = f.selection /\ skipTargetFind = f.skipTargetFind
        /\ defaultCursor = f.defaultCursor
SpecFrame == InitFrame /\ [][NextLayers]_vars

(* One gesture that starts while panning.  It starts in the state after a  *)
(* tool button was pressed, Space went down and the pointer went down on   *)
(* the overlay at pos, and runs up to its pointerup: no other pointerdown  *)
(* is taken, so every pointermove and the pointerup belong to it.          *)
InitPanGesture ==
    /\ Init!1 /\ Init!2 /\ Init!3 /\ Init!4 /\ Init!5 /\ Init!6 /\ Init!7
    /\ Init!9 /\ Init!14 /\ Init!15 /\ Init!19 /\ Init!20
    /\ tool \in Tools
    /\ selection = ~IsInkTool(tool)
    /\ isPanning = TRUE
    /\ defaultCursor = "grab"
    /\ skipTargetFind = TRUE
    /\ pointer = "overlay"
    /\ drawingRef = TRUE
    /\ \E pos \in Positions : pointsRef = <<pos>>
NextPanGesture ==
    \/ KeyboardOp
    \/ \E pos \in Positions : onPointerMove(pos)
    \/ \E stroke \in Outlines : onPointerUp(stroke)
SpecPanGesture == InitPanGesture /\ [][NextPanGesture]_vars

\* the whole component
Next == NextLayers \/ NextView \/ NextCanvas \/ NextPan
Spec == Init /\ [][Next]_vars

---------------------------------------------------------------------------
(* Properties.                                                             *)

\* C1: the layer list always holds at least one layer.
C1_LayersNonEmpty == Len(layers) >= 1

\* C2: the zoom stays within [0.1, 5], that is within 1 .. 50 tenths.
C2_ZoomInRange == zoom >= 1 /\ zoom <= 50

\* the zoom-in button has been pressed at the upper clamp
C2_Witness == zoom = 50 /\ wheelTimeout = "none"

(* C3: a pointerup that ends a lasso gesture makes the active selection    *)
(* exactly the set of objects whose centre the lasso polygon encloses,     *)
(* when the gesture recorded at least 3 points and that set is not empty;  *)
(* otherwise it leaves the active selection as it was.  It never changes   *)
(* the object list.                                                        *)
C3_Enclosed == {i \in 1 .. Len(objects) : isPointInPolygon(objects[i].center, pointsRef)}

C3_LassoSelects ==
    [][\A o \in Outlines :
          (~isPanning /\ tool = "lasso" /\ onPointerUp(o)) =>
              /\ objects' = objects
              /\ IF Len(pointsRef) >= 3 /\ C3_Enclosed # {}
                 THEN activeObject' = C3_Enclosed
                 ELSE activeObject' = activeObject]_vars

\* a finished lasso gesture of 3 points has selected two objects at once
C3_Witness ==
    /\ tool = "lasso" /\ pointer = "up" /\ ~drawingRef
    /\ Len(pointsRef) = 3
    /\ Cardinality(activeObject) = 2

(* C4: for a point that is not on the boundary of the polygon,             *)
(* isPointInPolygon agrees with the even-odd rule taken along another ray: *)
(* the parity of the number of edges the ray going up from the point       *)
(* crosses.                                                                *)
C4_OnSegment(p, a, b) ==
    /\ (b[1] - a[1]) * (p[2] - a[2]) = (b[2] - a[2]) * (p[1] - a[1])
    /\ Min(a[1], b[1]) <= p[1] /\ p[1] <= Max(a[1], b[1])
    /\ Min(a[2], b[2]) <= p[2] /\ p[2] <= Max(a[2], b[2])

C4_Previous(polygon, i) == IF i = 1 THEN Len(polygon) ELSE i - 1

C4_OnBoundary(p, polygon) ==
    \E i \in 1 .. Len(polygon) :
        C4_OnSegment(p, polygon[C4_Previous(polygon, i)], polygon[i])

\* the edge from a to b passes strictly above p
C4_CrossedAbove(p, a, b) ==
    LET dx == b[1] - a[1]
        lhs == (b[2] - a[2]) * (p[1] - a[1])
        rhs == (p[2] - a[2]) * dx
    IN  /\ (a[1] > p[1]) # (b[1] > p[1])
        /\ IF dx > 0 THEN lhs > rhs ELSE lhs < rhs

C4_EvenOdd(p, polygon) ==
    Cardinality({i \in 1 .. Len(polygon) :
        C4_CrossedAbove(p, polygon[C4_Previous(polygon, i)], polygon[i])}) % 2 = 1

C4_MatchesEvenOdd ==
    (pipRet # <<>> /\ ~C4_OnBoundary(pipArgs.point, pipArgs.polygon)) =>
        pipRet[1] = C4_EvenOdd(pipArgs.point, pipArgs.polygon)

\* the call has returned true for a point off the boundary of a quadrilateral
C4_Witness ==
    /\ pipRet = <<TRUE>>
    /\ Len(pipArgs.polygon) = 4
    /\ ~C4_OnBoundary(pipArgs.point, pipArgs.polygon)

(* C5: with the draw tool and without panning, the pointerdown of a        *)
(* gesture records one sample, each pointermove one more, and neither adds *)
(* an object; the pointerup appends exactly one path when at least 2       *)
(* samples were recorded and the outline is not empty, and nothing         *)
(* otherwise (a tap records a single sample).                              *)
C5_PenGesture ==
    /\ [][\A pos \in Positions :
            (tool = "draw" /\ ~isPanning /\ onPointerDown(pos)) =>
                (drawingRef' /\ Len(pointsRef') = 1 /\ objects' = objects)]_vars
    /\ [][\A pos \in Positions :
            (drawingRef /\ tool = "draw" /\ ~isPanning /\ onPointerMove(pos)) =>
                (Len(pointsRef') = Len(pointsRef) + 1 /\ objects' = objects)]_vars
    /\ [][\A o \in Outlines :
            (pointer = "overlay" /\ drawingRef /\ tool = "draw" /\ ~isPanning
                 /\ onPointerUp(o)) =>
                IF Len(pointsRef) >= 2 /\ o # <<>>
                THEN /\ Len(objects') = Len(objects) + 1
                     /\ SubSeq(objects', 1, Len(objects)) = objects
                     /\ objects'[Len(objects')].kind = "path"
                ELSE objects' = objects]_vars

\* a pen gesture of 2 samples has ended and the canvas holds its one path
C5_Witness ==
    /\ tool = "draw" /\ pointer = "up" /\ ~drawingRef
    /\ Len(pointsRef) = 2
    /\ Len(objects) = 1 /\ objects[1].kind = "path"

(* C6: a layer operation changes nothing but the layer list and the active *)
(* layer id, and no layer record ever holds an object.                     *)
C6_LayerOpsFrame ==
    /\ [][LayerOp => UNCHANGED <<now, viewVars, toolVars, gestureVars, fabricVars>>]_vars
    /\ [](\A i \in 1 .. Len(layers) : layers[i].objects = <<>>)

\* a layer was added while the canvas held an object and the view was zoomed and panned
C6_Witness ==
    /\ Len(layers) = 2
    /\ objects # <<>> /\ zoom # 10 /\ panX # 0 /\ tool # "draw" /\ color # "#3b82f6"

(* C7: undo removes the last object, keeps the others in their order and   *)
(* clears the active selection; on an empty canvas it changes nothing.     *)
(* addRect and addCircle put their object at the end, so that undo after   *)
(* either gives back the list they started from.                           *)
C7_Undo ==
    /\ [][undo =>
            IF objects = <<>>
            THEN UNCHANGED vars
            ELSE /\ Len(objects') = Len(objects) - 1
                 /\ \A i \in 1 .. Len(objects') : objects'[i] = objects[i]
                 /\ activeObject' = {}]_vars
    /\ [][(addRect \/ addCircle) =>
            /\ Len(objects') = Len(objects) + 1
            /\ \A i \in 1 .. Len(objects) : objects'[i] = objects[i]]_vars

\* no gesture has run, and the one rectangle left is not selected: a later object was undone
C7_Witness ==
    /\ pointsRef = <<>>
    /\ Len(objects) = 1 /\ objects[1].kind = "rect"
    /\ activeObject = {}

(* C8: during a drag that started while panning and with Space held        *)
(* throughout, the pan offset minus the pointer position stays what it was *)
(* at the pointerdown, so the drag from p0 to p1 changes the pan offset by *)
(* p1 - p0; the pointer handlers leave zoom and the object list alone, and *)
(* pointerdown and pointerup leave the pan offset alone.                   *)
C8_PanDrag ==
    [][isPanning =>
          /\ \A pos \in Positions :
                onPointerDown(pos) =>
                    (drawingRef' /\ pointsRef' = <<pos>> /\ panX' = panX /\ panY' = panY)
          /\ (isPanning' /\ drawingRef /\ pointer = "overlay" /\ pointer' = "overlay") =>
                /\ Len(pointsRef) = 1 /\ Len(pointsRef') = 1
                /\ panX' - pointsRef'[1][1] = panX - pointsRef[1][1]
                /\ panY' - pointsRef'[1][2] = panY - pointsRef[1][2]
          /\ PointerOp => (zoom' = zoom /\ objects' = objects)
          /\ \A o \in Outlines :
                onPointerUp(o) => (panX' = panX /\ panY' = panY)]_vars

\* a drag has moved the view right and up, and the pointer is still down
C8_Witness ==
    /\ isPanning /\ drawingRef /\ pointer = "overlay"
    /\ pointsRef = <<<<300, 100>>>>
    /\ panX = 200 /\ panY = -200

\* C9: activeLayerId is the id of a layer of the layer list.
C9_ActiveLayerPresent == \E i \in 1 .. Len(layers) : layers[i].id = activeLayerId

\* C10: the ids of the layers are pairwise distinct.
C10_DistinctIds ==
    \A i, j \in 1 .. Len(layers) : i # j => layers[i].id # layers[j].id

(* C11: with the draw tool and without panning, a pointerup that follows a *)
(* pointerdown outside the overlay (the release of a click on a toolbar    *)
(* button, say) leaves the object list as it was.                          *)
C11_StrayPointerUp ==
    [][\A o \in Outlines :
          (pointer = "elsewhere" /\ tool = "draw" /\ ~isPanning /\ onPointerUp(o)) =>
              objects' = objects]_vars

(* C12: every pointerup ends the gesture in progress: right after any      *)
(* pointerup drawingRef is false, whatever the tool and the panning mode   *)
(* have become since the pointerdown.                                      *)
C12_PointerUpEndsGesture ==
    [][\A o \in Outlines : onPointerUp(o) => ~drawingRef']_vars

(* C13: a gesture whose pointerdown happened while panning adds no object  *)
(* to the canvas, whether or not Space is released before the pointerup.   *)
C13_PanGestureAddsNoPath ==
    [][objects' = objects]_vars

(* C14: isPanning goes from false to true only in a Space keydown taken    *)
(* with no gesture in progress (drawingRef false), and from true to false  *)
(* only in a Space keyup; a Space keydown during a gesture leaves it as it *)
(* was.                                                                    *)
C14_PanningTransitions ==
    [][/\ (~isPanning /\ isPanning') => (~drawingRef /\ handleKeyDown)
       /\ (isPanning /\ ~isPanning') => handleKeyUp
       /\ (drawingRef /\ handleKeyDown) => (isPanning' = isPanning)]_vars

\* panning has been on and off again (the view was dragged), and a gesture is now in progress
C14_Witness ==
    /\ ~isPanning /\ drawingRef /\ pointer = "overlay"
    /\ panX # 0

(* C15: whenever panning is off, the interactivity of the canvas matches   *)
(* the tool: skipTargetFind is true exactly for the draw and lasso tools,  *)
(* selection is true exactly for the other tools, and the default cursor   *)
(* is the crosshair exactly for the draw and lasso tools.                  *)
C15_InteractivityMatchesTool ==
    ~isPanning =>
        /\ skipTargetFind = IsInkTool(tool)
        /\ selection = ~IsInkTool(tool)
        /\ (defaultCursor = "crosshair") = IsInkTool(tool)

=============================================================================
